---------------------------- MODULE Spec2Model ----------------------------
(***************************************************************************)
(* Smart-grid serious game: the plant / grid model (game/grid_model.py),   *)
(* the stochastic weather engine (game/stochastic_engine.py) and the       *)
(* gymnasium environment (game/smart_grid_env.py).                         *)
(*                                                                         *)
(* Arithmetic.  The program computes in floating point; the model computes *)
(* the same expressions exactly, on integers with fixed denominators:      *)
(*   - in the environment a power is held in units of 1/PowerScale MW,     *)
(*     a CO2 rate in units of 1/Co2Scale per MW;                           *)
(*   - a weather fraction is a numerator over FracDen(horizon);            *)
(*   - an observation entry is a pair <<numerator, denominator>>;          *)
(*   - a reward is a numerator over RewardDen.                             *)
(* The stand-alone grid (SpecGrid) uses small abstract integer quantities. *)
(***************************************************************************)
EXTENDS Integers, Sequences, FiniteSets, TLC

VARIABLES
    env,      \* the SmartGridEnv object
    ret,      \* the last call made and what it returned or raised
    env2,     \* a second, independent SmartGridEnv object (SpecPair)
    ret2,     \* the last call on env2
    paired,   \* SpecPair: both environments were reset with one seed and
              \* have been driven by the same actions since
    unit,     \* a stand-alone PowerPlant object (SpecPlant)
    grid,     \* a stand-alone Grid object (SpecGrid)
    eng       \* a stand-alone StochasticEngine object (SpecProfile)

vars == <<env, ret, env2, ret2, paired, unit, grid, eng>>

---------------------------------------------------------------------------
(* Helpers standing for Python built-ins.                                  *)

Abs(x) == IF x < 0 THEN -x ELSE x

Min(a, b) == IF a < b THEN a ELSE b

Max(a, b) == IF a > b THEN a ELSE b

\* Python's None (an absent seed, an attribute not set yet): a value that is
\* no seed, no turn number and no object.
None == -1

\* The one element of a singleton set.
The(S) == CHOOSE x \in S : TRUE

---------------------------------------------------------------------------
(* game/grid_model.py                                                      *)

PowerPlant(name, plant_type, p_max, p_min, cost_per_mw, co2_per_mw, ramp_rate) ==
    [name |-> name, plant_type |-> plant_type, p_max |-> p_max, p_min |-> p_min,
     cost_per_mw |-> cost_per_mw, co2_per_mw |-> co2_per_mw,
     ramp_rate |-> ramp_rate, current_power |-> 0, is_on |-> FALSE]

\* Mutant: the minimum-technical-threshold test is dropped.
step_power_no_pmin(self, target_power) ==
    LET t2    == Min(target_power, self.p_max)
        d0    == t2 - self.current_power
        delta == IF Abs(d0) > self.ramp_rate
                 THEN (IF d0 > 0 THEN self.ramp_rate ELSE -self.ramp_rate)
                 ELSE d0
        cp    == self.current_power + delta
    IN  [self |-> [self EXCEPT !.current_power = cp, !.is_on = (cp > 0)],
         hourly_cost |-> cp * self.cost_per_mw,
         hourly_co2  |-> cp * self.co2_per_mw]

\* Mutant: the ramp clamp is applied to increases only.
step_power_ramp_up_only(self, target_power) ==
    LET t1    == IF target_power > 0 /\ target_power < self.p_min
                 THEN 0 ELSE target_power
        t2    == Min(t1, self.p_max)
        d0    == t2 - self.current_power
        delta == IF d0 > self.ramp_rate THEN self.ramp_rate ELSE d0
        cp    == self.current_power + delta
    IN  [self |-> [self EXCEPT !.current_power = cp, !.is_on = (cp > 0)],
         hourly_cost |-> cp * self.cost_per_mw,
         hourly_co2  |-> cp * self.co2_per_mw]

\* Mutant: the ramp clamp is dropped, the output jumps to the target.
step_power_unlimited_ramp(self, target_power) ==
    LET t1 == IF target_power > 0 /\ target_power < self.p_min
              THEN 0 ELSE target_power
        cp == Min(t1, self.p_max)
    IN  [self |-> [self EXCEPT !.current_power = cp, !.is_on = (cp > 0)],
         hourly_cost |-> cp * self.cost_per_mw,
         hourly_co2  |-> cp * self.co2_per_mw]

\* Mutant: a target below p_min is raised to p_min.
step_power_floor_at_pmin(self, target_power) ==
    LET t1    == IF target_power < self.p_min THEN self.p_min ELSE target_power
        t2    == Min(t1, self.p_max)
        d0    == t2 - self.current_power
        delta == IF Abs(d0) > self.ramp_rate
                 THEN (IF d0 > 0 THEN self.ramp_rate ELSE -self.ramp_rate)
                 ELSE d0
        cp    == self.current_power + delta
    IN  [self |-> [self EXCEPT !.current_power = cp, !.is_on = (cp > 0)],
         hourly_cost |-> cp * self.cost_per_mw,
         hourly_co2  |-> cp * self.co2_per_mw]

\* PowerPlant.step_power: the plant after the call and the pair it returns.
step_power(self, target_power) ==
    LET t1    == IF target_power > 0 /\ target_power < self.p_min
                 THEN 0 ELSE target_power
        t2    == Min(t1, self.p_max)
        d0    == t2 - self.current_power
        delta == IF Abs(d0) > self.ramp_rate
                 THEN (IF d0 > 0 THEN self.ramp_rate ELSE -self.ramp_rate)
                 ELSE d0
        cp    == self.current_power + delta
    IN  [self |-> [self EXCEPT !.current_power = cp, !.is_on = (cp > 0)],
         hourly_cost |-> cp * self.cost_per_mw,
         hourly_co2  |-> cp * self.co2_per_mw]

Consumer(name, base_load) ==
    [name |-> name, base_load |-> base_load, current_load |-> base_load]

update_load(self, new_load) == [self EXCEPT !.current_load = new_load]

Grid == [plants |-> <<>>, consumers |-> <<>>]

add_plant(self, plant) == [self EXCEPT !.plants = Append(@, plant)]

add_consumer(self, consumer) == [self EXCEPT !.consumers = Append(@, consumer)]

RECURSIVE SumPower(_)
SumPower(plants) ==
    IF plants = <<>> THEN 0
    ELSE Head(plants).current_power + SumPower(Tail(plants))

RECURSIVE SumLoad(_)
SumLoad(consumers) ==
    IF consumers = <<>> THEN 0
    ELSE Head(consumers).current_load + SumLoad(Tail(consumers))

\* Mutant: a surplus is counted as a blackout too (sign test lost).
step_balance_any_imbalance(self) ==
    LET total_prod   == SumPower(self.plants)
        total_demand == SumLoad(self.consumers)
        delta        == total_prod - total_demand
        is_blackout  == delta # 0
    IN  [total_production |-> total_prod, total_demand |-> total_demand,
         delta |-> delta, is_blackout |-> is_blackout,
         unmet_demand  |-> IF is_blackout THEN Abs(delta) ELSE 0,
         wasted_energy |-> IF delta > 0 THEN delta ELSE 0]

step_balance(self) ==
    LET total_prod   == SumPower(self.plants)
        total_demand == SumLoad(self.consumers)
        delta        == total_prod - total_demand
        is_blackout  == delta < 0
    IN  [total_production |-> total_prod, total_demand |-> total_demand,
         delta |-> delta, is_blackout |-> is_blackout,
         unmet_demand  |-> IF is_blackout THEN Abs(delta) ELSE 0,
         wasted_energy |-> IF delta > 0 THEN delta ELSE 0]

---------------------------------------------------------------------------
(* A stand-alone PowerPlant driven by any targets (SpecPlant).             *)

MaxPMax == 4
MaxRamp == 3
MaxTarget == 5
MinTarget == 2

\* Static parameters a unit is built with: 0 <= p_min <= p_max, ramp > 0.
PMaxSet == 1 .. MaxPMax
RampSet == 1 .. MaxRamp
CostSet == {0, 2}
Co2Set == {1}
\* Targets handed to step_power: negative, zero, sub-minimum, above capacity.
TargetSet == (-MinTarget) .. MaxTarget

NoCall == [op |-> "none"]

\* unit = PowerPlant(...) with every admissible parameter combination.
InitPlant ==
    /\ \E pmax \in PMaxSet, pmin \in 0 .. MaxPMax, ramp \in RampSet,
          cost \in CostSet, co2 \in Co2Set :
          /\ pmin <= pmax
          /\ unit = PowerPlant("plant", "gas", pmax, pmin, cost, co2, ramp)
    /\ ret = NoCall
    /\ env = None
    /\ env2 = None
    /\ ret2 = NoCall
    /\ paired = FALSE
    /\ grid = Grid
    /\ eng = None

\* unit.step_power(target); ret keeps the argument, the output the unit
\* had when the call was made, and the returned pair.
PlantStepPower ==
    /\ \E target \in TargetSet :
          LET r == step_power(unit, target)
          IN  /\ unit' = r.self
              /\ ret' = [op |-> "step_power", target |-> target,
                         before |-> unit.current_power,
                         hourly_cost |-> r.hourly_cost,
                         hourly_co2 |-> r.hourly_co2]
    /\ UNCHANGED <<env, env2, ret2, paired, grid, eng>>

NextPlant == PlantStepPower

SpecPlant == InitPlant /\ [][NextPlant]_vars

---------------------------------------------------------------------------
(* A stand-alone Grid: plants and consumers are added, plants are driven   *)
(* and loads updated, and the balance is taken at any time (SpecGrid).     *)

MaxPlants == 2
MaxConsumers == 1
MaxLoad == 4

LoadSet == 0 .. MaxLoad

InitGrid ==
    /\ grid = Grid
    /\ eng = None
    /\ ret = NoCall
    /\ unit = None
    /\ env = None
    /\ env2 = None
    /\ ret2 = NoCall
    /\ paired = FALSE

GridAddPlant ==
    /\ Len(grid.plants) < MaxPlants
    /\ grid' = add_plant(grid, PowerPlant("plant", "gas", MaxPMax, 0, 0, 0, MaxRamp))
    /\ ret' = [op |-> "add_plant"]
    /\ UNCHANGED <<env, env2, ret2, paired, unit, eng>>

GridAddConsumer ==
    /\ Len(grid.consumers) < MaxConsumers
    /\ grid' = add_consumer(grid, Consumer("city", MaxLoad))
    /\ ret' = [op |-> "add_consumer"]
    /\ UNCHANGED <<env, env2, ret2, paired, unit, eng>>

GridStepPower ==
    /\ \E i \in 1 .. Len(grid.plants), target \in TargetSet :
          grid' = [grid EXCEPT !.plants[i] = step_power(@, target).self]
    /\ ret' = [op |-> "step_power"]
    /\ UNCHANGED <<env, env2, ret2, paired, unit, eng>>

GridUpdateLoad ==
    /\ \E j \in 1 .. Len(grid.consumers), load \in LoadSet :
          grid' = [grid EXCEPT !.consumers[j] = update_load(@, load)]
    /\ ret' = [op |-> "update_load"]
    /\ UNCHANGED <<env, env2, ret2, paired, unit, eng>>

\* grid.step_balance(): a pure function of the grid; ret keeps the result.
GridStepBalance ==
    /\ ret' = [op |-> "step_balance", balance |-> step_balance(grid)]
    /\ UNCHANGED <<env, env2, ret2, paired, unit, grid, eng>>

NextGrid ==
    \/ GridAddPlant
    \/ GridAddConsumer
    \/ GridStepPower
    \/ GridUpdateLoad
    \/ GridStepBalance

SpecGrid == InitGrid /\ [][NextGrid]_vars

---------------------------------------------------------------------------
(* game/stochastic_engine.py                                               *)

\* Fixed-point units: profile values and volatilities are held in 1/100.
ProfileScale == 100

\* Mutant: the multiplier shrinks from 3.0 at offset 0 to 0.5 at offset horizon.
GrowthNum_shrinking(i, horizon) ==
    IF horizon = 0 THEN 1 ELSE 6 * horizon - 5 * i

\* np.linspace(0.5, 3.0, horizon + 1)[i] = GrowthNum(i, h) / GrowthDen(h);
\* a one-point linspace is [0.5].
GrowthNum(i, horizon) == IF horizon = 0 THEN 1 ELSE horizon + 5 * i

GrowthDen(horizon) == IF horizon = 0 THEN 2 ELSE 2 * horizon

\* Denominator of the values a profile returns for a given horizon.
FracDen(horizon) == ProfileScale * ProfileScale * GrowthDen(horizon)

\* The standard-normal deviates the generator can hand out, in whole
\* standard deviations.
ZValues == <<0, 1, -1, 2, -2, 9, -9>>

\* np.random.default_rng(seed): the generator's state is its seed and the
\* number of deviates drawn so far.
default_rng(seed) == [seed |-> seed, draws |-> 0]

\* The n-th deviate of the stream of a seed: a fixed function of both.
NormalDraw(rng, n) ==
    LET k == rng.draws + n
    IN  ZValues[((rng.seed * (k + 3) + 3 * k + 5 * (k \div 13) + (k \div 39))
                    % Len(ZValues)) + 1]

StochasticProfile(base_profile, noise_volatility) ==
    [base_profile |-> base_profile, noise_volatility |-> noise_volatility]

\* hours[i] of get_actual_and_forecast: the index into the base profile.
ProfileHour(current_hour, i) == (current_hour + i) % 24

\* noise_std[i] of get_actual_and_forecast, as a numerator over
\* FracDen(horizon).
NoiseStd(self, current_hour, horizon, i) ==
    self.noise_volatility * self.base_profile[ProfileHour(current_hour, i) + 1]
        * GrowthNum(i, horizon)

\* Mutant: hours past the end of the profile stay on its last entry.
ProfileValue_hour_saturates(self, rng, current_hour, horizon, i) ==
    LET hour      == Min(current_hour + i, 23)
        trend     == self.base_profile[hour + 1]
        noise_std == self.noise_volatility * trend * GrowthNum(i, horizon)
        noise     == NormalDraw(rng, i) * noise_std
    IN  Max(trend * ProfileScale * GrowthDen(horizon) + noise, 0)

\* Mutant: the noise does not scale with the trend.
ProfileValue_additive_noise(self, rng, current_hour, horizon, i) ==
    LET hour      == (current_hour + i) % 24
        trend     == self.base_profile[hour + 1]
        noise_std == self.noise_volatility * ProfileScale * GrowthNum(i, horizon)
        noise     == NormalDraw(rng, i) * noise_std
    IN  Max(trend * ProfileScale * GrowthDen(horizon) + noise, 0)

\* values[i] of get_actual_and_forecast, as a numerator over FracDen(horizon).
ProfileValue(self, rng, current_hour, horizon, i) ==
    LET hour      == (current_hour + i) % 24
        trend     == self.base_profile[hour + 1]
        \* noise_std * ProfileScale^2 * GrowthDen
        noise_std == self.noise_volatility * trend * GrowthNum(i, horizon)
        noise     == NormalDraw(rng, i) * noise_std
    IN  Max(trend * ProfileScale * GrowthDen(horizon) + noise, 0)

\* StochasticProfile.get_actual_and_forecast: the pair returned, drawn
\* from the shared generator in state rng.
get_actual_and_forecast(self, rng, current_hour, horizon) ==
    [actual   |-> ProfileValue(self, rng, current_hour, horizon, 0),
     forecast |-> [i \in 1 .. horizon |->
                       ProfileValue(self, rng, current_hour, horizon, i)]]

\* The shared generator after one get_actual_and_forecast call: line 27
\* draws horizon + 1 deviates.
rng_after_sample(rng, horizon) == [rng EXCEPT !.draws = @ + horizon + 1]

demand_profile ==
    <<60, 55, 50, 50, 55, 65, 80, 90, 95, 90, 85, 85,
      85, 85, 85, 85, 90, 95, 100, 95, 90, 80, 70, 65>>

solar_profile ==
    <<0, 0, 0, 0, 0, 0, 10, 30, 60, 80, 90, 100,
      100, 90, 80, 60, 30, 10, 0, 0, 0, 0, 0, 0>>

wind_profile == [h \in 1 .. 24 |-> 50]

\* StochasticEngine(seed): three profiles sharing one generator.
StochasticEngine(seed) ==
    [rng    |-> default_rng(seed),
     demand |-> StochasticProfile(demand_profile, 5),
     solar  |-> StochasticProfile(solar_profile, 15),
     wind   |-> StochasticProfile(wind_profile, 25)]

\* Mutant: the solar profile is sampled before the demand profile.
step_weather_and_demand_solar_first(self, current_hour, horizon) ==
    LET rng_s == self.rng
        rng_d == rng_after_sample(rng_s, horizon)
        rng_w == rng_after_sample(rng_d, horizon)
    IN  The({ [actual   |-> [demand |-> d.actual, solar |-> s.actual,
                             wind |-> w.actual],
               forecast |-> [demand |-> d.forecast, solar |-> s.forecast,
                             wind |-> w.forecast]] :
              d \in {get_actual_and_forecast(self.demand, rng_d, current_hour, horizon)},
              s \in {get_actual_and_forecast(self.solar, rng_s, current_hour, horizon)},
              w \in {get_actual_and_forecast(self.wind, rng_w, current_hour, horizon)} })

\* StochasticEngine.step_weather_and_demand: the bundle returned. The three
\* profiles draw from the one generator in the order demand, solar, wind.
\* (Each sample is bound once, as the code assigns it once.)
step_weather_and_demand(self, current_hour, horizon) ==
    LET rng_d == self.rng
        rng_s == rng_after_sample(rng_d, horizon)
        rng_w == rng_after_sample(rng_s, horizon)
    IN  The({ [actual   |-> [demand |-> d.actual, solar |-> s.actual,
                             wind |-> w.actual],
               forecast |-> [demand |-> d.forecast, solar |-> s.forecast,
                             wind |-> w.forecast]] :
              d \in {get_actual_and_forecast(self.demand, rng_d, current_hour, horizon)},
              s \in {get_actual_and_forecast(self.solar, rng_s, current_hour, horizon)},
              w \in {get_actual_and_forecast(self.wind, rng_w, current_hour, horizon)} })

\* The engine after a step_weather_and_demand call: its generator has served
\* the three samples.
engine_after_weather(self, horizon) ==
    [self EXCEPT !.rng = rng_after_sample(
                             rng_after_sample(
                                 rng_after_sample(@, horizon), horizon), horizon)]

---------------------------------------------------------------------------
(* game/smart_grid_env.py                                                  *)

\* Fixed-point units of the environment: powers in 1/PowerScale MW, CO2
\* rates in 1/Co2Scale per MW, action entries in 1/ActionScale.
PowerScale == 8
Co2Scale == 100
ActionScale == 10

MW(x) == x * PowerScale

num_controllable_plants == 3
forecast_horizon == 12
max_steps == 24

obs_size == num_controllable_plants + 2 + 3 + (3 * forecast_horizon) + 1

solar_capacity == MW(150)
wind_capacity == MW(100)
city_base_load == MW(400)

\* SmartGridEnv(): reset has not run yet, so current_step, engine, grid and
\* current_weather are not attributes of the object.
SmartGridEnv ==
    [observation_space |-> obs_size,
     current_step |-> None, engine |-> None, grid |-> None,
     current_weather |-> None]

\* A weather fraction (numerator over FracDen) times a capacity: a power.
Scaled(fraction, capacity) ==
    (fraction * capacity) \div FracDen(forecast_horizon)

\* Mutant: the weather targets go to plants[2] and plants[3] (the nuclear
\* and the solar plant) instead of plants[3] and plants[4].
_update_stochastic_elements_off_by_one(self) ==
    LET actual_demand == Scaled(self.current_weather.actual.demand, city_base_load)
        actual_solar  == Scaled(self.current_weather.actual.solar, solar_capacity)
        actual_wind   == Scaled(self.current_weather.actual.wind, wind_capacity)
    IN  [self EXCEPT
            !.grid.consumers[1] = update_load(@, actual_demand),
            !.grid.plants[3] = step_power(@, actual_solar).self,
            !.grid.plants[4] = step_power(@, actual_wind).self]

_update_stochastic_elements(self) ==
    LET actual_demand == Scaled(self.current_weather.actual.demand, city_base_load)
        actual_solar  == Scaled(self.current_weather.actual.solar, solar_capacity)
        actual_wind   == Scaled(self.current_weather.actual.wind, wind_capacity)
    IN  [self EXCEPT
            !.grid.consumers[1] = update_load(@, actual_demand),
            !.grid.plants[4] = step_power(@, actual_solar).self,
            !.grid.plants[5] = step_power(@, actual_wind).self]

\* Mutant: the realized fractions are laid out demand, solar, wind.
_get_obs_demand_first(self) ==
    LET den == FracDen(forecast_horizon)
        w   == self.current_weather
    IN  [i \in 1 .. Len(self.grid.plants) |->
            <<self.grid.plants[i].current_power, self.grid.plants[i].p_max>>]
        \o << <<w.actual.demand, den>>, <<w.actual.solar, den>>,
              <<w.actual.wind, den>> >>
        \o [i \in 1 .. Len(w.forecast.wind) |-> <<w.forecast.wind[i], den>>]
        \o [i \in 1 .. Len(w.forecast.solar) |-> <<w.forecast.solar[i], den>>]
        \o [i \in 1 .. Len(w.forecast.demand) |-> <<w.forecast.demand[i], den>>]
        \o << <<self.current_step, max_steps>> >>

\* The observation vector: each entry a pair <<numerator, denominator>>.
_get_obs(self) ==
    LET den == FracDen(forecast_horizon)
        w   == self.current_weather
    IN  [i \in 1 .. Len(self.grid.plants) |->
            <<self.grid.plants[i].current_power, self.grid.plants[i].p_max>>]
        \o << <<w.actual.wind, den>>, <<w.actual.solar, den>>,
              <<w.actual.demand, den>> >>
        \o [i \in 1 .. Len(w.forecast.wind) |-> <<w.forecast.wind[i], den>>]
        \o [i \in 1 .. Len(w.forecast.solar) |-> <<w.forecast.solar[i], den>>]
        \o [i \in 1 .. Len(w.forecast.demand) |-> <<w.forecast.demand[i], den>>]
        \o << <<self.current_step, max_steps>> >>

\* The info dictionary; the forecasts in MW are numerators over
\* FracDen(forecast_horizon) * PowerScale.
_get_info(self) ==
    LET w == self.current_weather
    IN  [forecast_data |->
            [demand_forecast |-> [i \in 1 .. Len(w.forecast.demand) |->
                                     w.forecast.demand[i] * city_base_load],
             solar_forecast  |-> [i \in 1 .. Len(w.forecast.solar) |->
                                     w.forecast.solar[i] * solar_capacity],
             wind_forecast   |-> [i \in 1 .. Len(w.forecast.wind) |->
                                     w.forecast.wind[i] * wind_capacity]],
         total_generation |-> SumPower(self.grid.plants),
         current_demand   |-> self.grid.consumers[1].current_load,
         solar_power      |-> self.grid.plants[4].current_power,
         wind_power       |-> self.grid.plants[5].current_power,
         plants_status    |-> [i \in 1 .. Len(self.grid.plants) |->
                                 [name  |-> self.grid.plants[i].name,
                                  type  |-> self.grid.plants[i].plant_type,
                                  power |-> self.grid.plants[i].current_power,
                                  p_max |-> self.grid.plants[i].p_max]]]

\* Mutant: the renewables are built with the nuclear plant's ramp rate.
ResetGrid_slow_renewables ==
    LET g1 == add_plant(Grid, PowerPlant("Gas Plant", "gas", MW(100), MW(0), 150, 80, MW(100)))
        g2 == add_plant(g1, PowerPlant("Coal Plant", "coal", MW(150), MW(0), 50, 120, MW(50)))
        g3 == add_plant(g2, PowerPlant("Nuclear Plant", "nuclear", MW(300), MW(150), 20, 1, MW(20)))
        g4 == add_plant(g3, PowerPlant("Solar Farm", "solar", solar_capacity, MW(0), 0, 0, MW(20)))
        g5 == add_plant(g4, PowerPlant("Wind Farm", "wind", wind_capacity, MW(0), 0, 0, MW(20)))
    IN  add_consumer(g5, Consumer("Main City", city_base_load))

\* The grid reset builds: gas, coal, nuclear, solar, wind and the city.
ResetGrid ==
    LET g1 == add_plant(Grid, PowerPlant("Gas Plant", "gas", MW(100), MW(0), 150, 80, MW(100)))
        g2 == add_plant(g1, PowerPlant("Coal Plant", "coal", MW(150), MW(0), 50, 120, MW(50)))
        g3 == add_plant(g2, PowerPlant("Nuclear Plant", "nuclear", MW(300), MW(150), 20, 1, MW(20)))
        g4 == add_plant(g3, PowerPlant("Solar Farm", "solar", solar_capacity, MW(0), 0, 0, MW(999)))
        g5 == add_plant(g4, PowerPlant("Wind Farm", "wind", wind_capacity, MW(0), 0, 0, MW(999)))
    IN  add_consumer(g5, Consumer("Main City", city_base_load))

\* Line 54: what reset returns, and the environment it leaves.
ResetReturn(self) ==
    [self |-> self, status |-> "ok", obs |-> _get_obs(self), info |-> _get_info(self)]

\* Lines 31-51: the attributes reset assigns; the new engine serves the
\* turn-0 weather draw.
ResetAssign(self, engine) ==
    [self EXCEPT !.current_step = 0,
                 !.engine = engine_after_weather(engine, forecast_horizon),
                 !.grid = ResetGrid,
                 !.current_weather =
                     step_weather_and_demand(engine, 0, forecast_horizon)]

\* Mutant: reset keeps the plants and the consumer of the previous episode.
reset_keeps_grid(self, seed, entropy) ==
    ResetReturn(_update_stochastic_elements(
        [ResetAssign(self, StochasticEngine(IF seed = None THEN entropy ELSE seed))
         EXCEPT !.grid = IF self.current_step = None THEN ResetGrid ELSE self.grid]))

\* Mutant: reset leaves the engine of the previous episode in place.
reset_keeps_engine(self, seed, entropy) ==
    ResetReturn(_update_stochastic_elements(
        ResetAssign(self,
            IF self.current_step = None
            THEN StochasticEngine(IF seed = None THEN entropy ELSE seed)
            ELSE self.engine)))

\* Mutant: reset adds its plants and its consumer to the grid of the
\* previous episode.
reset_appends_to_grid(self, seed, entropy) ==
    ResetReturn(_update_stochastic_elements(
        [ResetAssign(self, StochasticEngine(IF seed = None THEN entropy ELSE seed))
         EXCEPT !.grid =
             IF self.current_step = None THEN ResetGrid
             ELSE [self.grid EXCEPT
                       !.plants = @ \o ResetGrid.plants,
                       !.consumers = @ \o ResetGrid.consumers]]))

\* SmartGridEnv.reset(seed): the environment after the call and the pair
\* returned. With seed = None the generator is seeded from OS entropy.
reset(self, seed, entropy) ==
    ResetReturn(_update_stochastic_elements(
        ResetAssign(self, StochasticEngine(IF seed = None THEN entropy ELSE seed))))

\* The loop of step over i in range(num_controllable_plants), from index i
\* (0-based); action[i] past the end of the vector raises IndexError.
RECURSIVE ApplyActions(_, _, _, _, _)
ApplyActions(g, action, i, cost, co2) ==
    IF i >= num_controllable_plants
    THEN [grid |-> g, cost |-> cost, co2 |-> co2, raised |-> FALSE]
    ELSE IF i >= Len(action)
    THEN [grid |-> g, cost |-> cost, co2 |-> co2, raised |-> TRUE]
    ELSE ApplyActions(
            [g EXCEPT !.plants[i + 1] =
                step_power(@, (action[i + 1] * @.p_max) \div ActionScale).self],
            action, i + 1,
            cost + step_power(g.plants[i + 1],
                      (action[i + 1] * g.plants[i + 1].p_max) \div ActionScale).hourly_cost,
            co2 + step_power(g.plants[i + 1],
                      (action[i + 1] * g.plants[i + 1].p_max) \div ActionScale).hourly_co2)

\* Denominator of a reward: cost is in 1/PowerScale, emissions in
\* 1/(PowerScale * Co2Scale), energies in 1/PowerScale.
RewardDen == 10 * Co2Scale * PowerScale

\* Mutant: the reward leaves the emissions out.
Reward_without_emissions(cost, co2, balance) ==
    -((Co2Scale * cost) + (5 * Co2Scale * balance.wasted_energy)
        + (1000 * Co2Scale * balance.unmet_demand))

\* Line 87: -(0.1 cost + 0.1 co2 + 0.5 wasted + 100 unmet), as a numerator
\* over RewardDen.
Reward(cost, co2, balance) ==
    -((Co2Scale * cost) + co2 + (5 * Co2Scale * balance.wasted_energy)
        + (1000 * Co2Scale * balance.unmet_demand))

\* Mutant: the episode is truncated only once the turn has passed max_steps.
StepReturn_truncates_late(self, a, balance) ==
    [self |-> self, status |-> "ok", obs |-> _get_obs(self),
     reward |-> Reward(a.cost, a.co2, balance), terminated |-> FALSE,
     truncated |-> (self.current_step > max_steps),
     info |-> [is_blackout |-> balance.is_blackout] @@ _get_info(self)]

\* Lines 87-92: the 5-tuple step returns; a holds the totals of the loop.
StepReturn(self, a, balance) ==
    [self |-> self, status |-> "ok", obs |-> _get_obs(self),
     reward |-> Reward(a.cost, a.co2, balance), terminated |-> FALSE,
     truncated |-> (self.current_step >= max_steps),
     info |-> [is_blackout |-> balance.is_blackout] @@ _get_info(self)]

\* Line 85: the balance is taken once plants and load are updated.
StepBalance(self, a) == StepReturn(self, a, step_balance(self.grid))

\* Lines 82-83: the weather of the new turn is drawn, stored and applied.
StepWeather(self, a) ==
    StepBalance(
        _update_stochastic_elements(
            [self EXCEPT
                !.engine = engine_after_weather(@, forecast_horizon),
                !.current_weather =
                    step_weather_and_demand(self.engine, self.current_step,
                                            forecast_horizon)]),
        a)

\* Lines 73-82: the outcome a of the loop is either the IndexError of a
\* vector that is too short, or the plants advanced; then the weather is drawn.
StepAfterLoop(self, a) ==
    IF a.raised
    THEN [self |-> [self EXCEPT !.grid = a.grid], status |-> "IndexError"]
    ELSE StepWeather([self EXCEPT !.grid = a.grid], a)

\* Mutant: the turn counter is incremented at the end of step, after the
\* weather of the turn was drawn.
step_increments_late(self, action) ==
    IF self.current_step = None
    THEN [self |-> self, status |-> "AttributeError"]
    ELSE [StepAfterLoop(self, ApplyActions(self.grid, action, 0, 0, 0))
          EXCEPT !.self.current_step = @ + 1]

\* Mutant: step on an object that was never reset resets it first.
step_resets_when_uninitialised(self, action) ==
    IF self.current_step = None
    THEN StepAfterLoop([reset(self, 1, 1).self EXCEPT !.current_step = @ + 1],
            ApplyActions(ResetGrid, action, 0, 0, 0))
    ELSE StepAfterLoop([self EXCEPT !.current_step = @ + 1],
            ApplyActions(self.grid, action, 0, 0, 0))

\* SmartGridEnv.step(action): the environment after the call and either the
\* 5-tuple returned or the exception raised. Before any reset the object
\* has no current_step and line 69 raises AttributeError.
step(self, action) ==
    IF self.current_step = None
    THEN [self |-> self, status |-> "AttributeError"]
    ELSE StepAfterLoop([self EXCEPT !.current_step = @ + 1],
            ApplyActions(self.grid, action, 0, 0, 0))

---------------------------------------------------------------------------
(* One environment driven by any caller (Spec).                            *)

NumSeeds == 2
MaxTurn == 25
\* Calls with a vector that is too short that a caller makes in one episode.
MaxShortCalls == 1

Seeds == 1 .. NumSeeds

\* Action vectors handed to step, entries in 1/ActionScale: all off, all
\* full, a sub-minimum nuclear target, above capacity, below zero, and
\* vectors that are too short and too long.
Actions ==
    { <<0, 0, 0>>, <<10, 10, 10>>, <<0, 0, 3>>, <<-5, 12, 10>>,
      <<10>>, <<0, 0, 0, 10>> }

Init ==
    /\ env = SmartGridEnv
    /\ ret = NoCall
    /\ env2 = SmartGridEnv
    /\ ret2 = NoCall
    /\ paired = FALSE
    /\ unit = None
    /\ grid = Grid
    /\ eng = None

\* What ret keeps of a call: the operation, its argument, the result, and
\* the caller's count of the step calls (nth) and of the too-short vectors
\* (short) it has made since the last reset.

\* The record ret or ret2 keeps of a step call.
StepRecord(r, action, nth, short) ==
    IF r.status = "ok"
    THEN [op |-> "step", action |-> action, nth |-> nth, short |-> short,
          status |-> r.status, obs |-> r.obs, reward |-> r.reward,
          terminated |-> r.terminated, truncated |-> r.truncated,
          info |-> r.info]
    ELSE [op |-> "step", action |-> action, nth |-> nth, short |-> short,
          status |-> r.status]

\* The record ret or ret2 keeps of a reset call.
ResetRecord(r, seed) ==
    [op |-> "reset", seed |-> seed, nth |-> 0, short |-> 0,
     status |-> r.status, obs |-> r.obs, info |-> r.info]

EnvReset ==
    /\ \E seed \in Seeds \cup {None} :
          \E entropy \in (IF seed = None THEN Seeds ELSE {seed}) :
          \E r \in {reset(env, seed, entropy)} :
              /\ env' = r.self
              /\ ret' = ResetRecord(r, seed)
    /\ UNCHANGED <<env2, ret2, paired, unit, grid, eng>>

EnvStep ==
    /\ env.current_step = None \/ env.current_step < MaxTurn
    /\ \E action \in Actions :
          /\ (env.current_step # None /\ Len(action) < num_controllable_plants)
                => ret.short < MaxShortCalls
          /\ \E r \in {step(env, action)},
                nth \in {IF env.current_step = None THEN 0 ELSE ret.nth + 1},
                short \in {IF env.current_step = None THEN 0
                           ELSE IF Len(action) < num_controllable_plants
                                THEN ret.short + 1 ELSE ret.short} :
                /\ env' = r.self
                /\ ret' = StepRecord(r, action, nth, short)
    /\ UNCHANGED <<env2, ret2, paired, unit, grid, eng>>

Next ==
    \/ EnvReset
    \/ EnvStep

Spec == Init /\ [][Next]_vars

---------------------------------------------------------------------------
(* Two independent environments (SpecPair): each is first driven on its    *)
(* own, then both are reset with one seed and given the same actions.      *)

\* Turns an environment is driven on its own before the common reset.
MaxFreeTurn == 1

\* Turns the two environments are driven together after the common reset.
MaxPairTurn == 8

FreeReset1 ==
    /\ ~paired
    /\ \E seed \in Seeds \cup {None} :
          \E entropy \in (IF seed = None THEN Seeds ELSE {seed}) :
          \E r \in {reset(env, seed, entropy)} :
              /\ env' = r.self
              /\ ret' = ResetRecord(r, seed)
    /\ UNCHANGED <<env2, ret2, paired, unit, grid, eng>>

FreeReset2 ==
    /\ ~paired
    /\ \E seed \in Seeds \cup {None} :
          \E entropy \in (IF seed = None THEN Seeds ELSE {seed}) :
          \E r \in {reset(env2, seed, entropy)} :
              /\ env2' = r.self
              /\ ret2' = ResetRecord(r, seed)
    /\ UNCHANGED <<env, ret, paired, unit, grid, eng>>

FreeStep1 ==
    /\ ~paired
    /\ env.current_step = None \/ env.current_step < MaxFreeTurn
    /\ \E action \in Actions :
          \E r \in {step(env, action)} :
              /\ env' = r.self
              /\ ret' = StepRecord(r, action, 0, 0)
    /\ UNCHANGED <<env2, ret2, paired, unit, grid, eng>>

FreeStep2 ==
    /\ ~paired
    /\ env2.current_step = None \/ env2.current_step < MaxFreeTurn
    /\ \E action \in Actions :
          \E r \in {step(env2, action)} :
              /\ env2' = r.self
              /\ ret2' = StepRecord(r, action, 0, 0)
    /\ UNCHANGED <<env, ret, paired, unit, grid, eng>>

\* reset(seed) on both environments, with the same seed.
PairReset ==
    /\ \E seed \in Seeds :
          \E r1 \in {reset(env, seed, seed)}, r2 \in {reset(env2, seed, seed)} :
              /\ env' = r1.self
              /\ ret' = ResetRecord(r1, seed)
              /\ env2' = r2.self
              /\ ret2' = ResetRecord(r2, seed)
    /\ paired' = TRUE
    /\ UNCHANGED <<unit, grid, eng>>

\* step(action) on both environments, with the same action.
PairStep ==
    /\ paired
    /\ env.current_step < MaxPairTurn
    /\ \E action \in Actions :
          /\ Len(action) < num_controllable_plants => ret.short < MaxShortCalls
          /\ \E r1 \in {step(env, action)}, r2 \in {step(env2, action)},
                short \in {IF Len(action) < num_controllable_plants
                           THEN 1 ELSE 0} :
                /\ env' = r1.self
                /\ ret' = StepRecord(r1, action, ret.nth + 1, ret.short + short)
                /\ env2' = r2.self
                /\ ret2' = StepRecord(r2, action, ret2.nth + 1, ret2.short + short)
    /\ UNCHANGED <<paired, unit, grid, eng>>

NextPair ==
    \/ FreeReset1
    \/ FreeReset2
    \/ FreeStep1
    \/ FreeStep2
    \/ PairReset
    \/ PairStep

SpecPair == Init /\ [][NextPair]_vars

---------------------------------------------------------------------------
(* One environment whose controller asks for no generation at all          *)
(* (SpecIdle): every action is all zeros.                                  *)

\* Seeds the idle episodes are started with.
NumIdleSeeds == 6

\* reset(seed).
IdleReset ==
    /\ \E seed \in 1 .. NumIdleSeeds :
          \E r \in {reset(env, seed, seed)} :
              /\ env' = r.self
              /\ ret' = ResetRecord(r, seed)
    /\ UNCHANGED <<env2, ret2, paired, unit, grid, eng>>

\* step([0, 0, 0]).
IdleStep ==
    /\ env.current_step = None \/ env.current_step < MaxTurn
    /\ \E action \in {<<0, 0, 0>>} :
          \E r \in {step(env, action)},
             nth \in {IF env.current_step = None THEN 0 ELSE ret.nth + 1} :
              /\ env' = r.self
              /\ ret' = StepRecord(r, action, nth, 0)
    /\ UNCHANGED <<env2, ret2, paired, unit, grid, eng>>

NextIdle ==
    \/ IdleReset
    \/ IdleStep

SpecIdle == Init /\ [][NextIdle]_vars

---------------------------------------------------------------------------
(* One of the environment's controllable plants driven toward targets that *)
(* are held over consecutive calls (SpecHold).                             *)

\* Consecutive calls a caller makes with one and the same target.
MaxHoldCalls == 16

\* The gas, coal and nuclear plants as reset builds them, and a unit whose
\* ramp rate divides neither its minimum nor its capacity.
HoldPlants ==
    { ResetGrid.plants[i] : i \in 1 .. num_controllable_plants }
        \cup { PowerPlant("unit", "gas", MW(100), MW(60), 0, 0, MW(35)) }

\* Targets t >= 0: off, below and at the nuclear minimum, at and above the
\* largest capacity.
HoldTargets == { MW(0), MW(90), MW(150), MW(300), MW(400) }

InitHold ==
    /\ unit \in HoldPlants
    /\ ret = NoCall
    /\ env = None
    /\ env2 = None
    /\ ret2 = NoCall
    /\ paired = FALSE
    /\ grid = Grid
    /\ eng = None

\* unit.step_power(target); ret keeps the target, the number of consecutive
\* calls made with it so far (held) and the output the unit had when the
\* first of them was made (start).
HoldStepPower ==
    /\ \E target \in HoldTargets :
          \E same \in {ret.op = "step_power" /\ ret.target = target} :
              /\ same => ret.held < MaxHoldCalls
              /\ unit' = step_power(unit, target).self
              /\ ret' = [op |-> "step_power", target |-> target,
                         held |-> IF same THEN ret.held + 1 ELSE 1,
                         start |-> IF same THEN ret.start ELSE unit.current_power]
    /\ UNCHANGED <<env, env2, ret2, paired, grid, eng>>

NextHold == HoldStepPower

SpecHold == InitHold /\ [][NextHold]_vars

---------------------------------------------------------------------------
(* SpecProfile: one sample of one profile of a stand-alone engine, for any *)
(* hour and horizon.                                                       *)

\* Largest hour handed to a sample; hours 24 and later wrap around.
MaxHour == 25
\* Horizons 0 .. MaxHorizon are sampled, and the environment's horizon.
MaxHorizon == 2
\* Weather bundles the engine has produced before the sample is taken.
MaxPriorCalls == 2

HourSet == 0 .. MaxHour

HorizonSet == (0 .. MaxHorizon) \cup {forecast_horizon}

ProfileNames == {"demand", "solar", "wind"}

RECURSIVE EngineAfterCalls(_, _)
\* The engine after n step_weather_and_demand calls at the environment's
\* horizon.
EngineAfterCalls(self, n) ==
    IF n = 0 THEN self
    ELSE EngineAfterCalls(engine_after_weather(self, forecast_horizon), n - 1)

InitProfile ==
    /\ \E seed \in Seeds, n \in 0 .. MaxPriorCalls :
          eng = EngineAfterCalls(StochasticEngine(seed), n)
    /\ ret = NoCall
    /\ env = None
    /\ env2 = None
    /\ ret2 = NoCall
    /\ paired = FALSE
    /\ unit = None
    /\ grid = Grid

\* eng.<name>.get_actual_and_forecast(eng.rng, current_hour, horizon); ret
\* keeps the arguments, the generator the call drew from, the locals hours
\* and noise_std, and the returned pair.
ProfileSample ==
    /\ ret.op = "none"
    /\ \E name \in ProfileNames, current_hour \in HourSet,
          horizon \in HorizonSet :
          \E r \in {get_actual_and_forecast(eng[name], eng.rng,
                                             current_hour, horizon)} :
              /\ ret' = [op           |-> "sample",
                         profile      |-> name,
                         current_hour |-> current_hour,
                         horizon      |-> horizon,
                         rng          |-> eng.rng,
                         hours        |-> [i \in 0 .. horizon |->
                                              ProfileHour(current_hour, i)],
                         noise_std    |-> [i \in 0 .. horizon |->
                                              NoiseStd(eng[name], current_hour,
                                                       horizon, i)],
                         actual       |-> r.actual,
                         forecast     |-> r.forecast]
              /\ eng' = [eng EXCEPT !.rng = rng_after_sample(@, horizon)]
    /\ UNCHANGED <<env, env2, ret2, paired, unit, grid>>

NextProfile == ProfileSample

SpecProfile == InitProfile /\ [][NextProfile]_vars

---------------------------------------------------------------------------
(* Claims about PowerPlant.step_power (SpecPlant).                         *)

\* C1: every step_power call, whatever the plant's p_min, p_max and
\* ramp_rate and whatever the target, changes the output by at most
\* ramp_rate in absolute value.
C1_RampLimit ==
    [][Abs(unit'.current_power - unit.current_power) <= unit.ramp_rate]_vars

\* C1 witness: a call whose target was further away than ramp_rate, in
\* either direction, and moved the output by exactly ramp_rate.
C1_Witness ==
    /\ ret.op = "step_power"
    /\ ret.target >= unit.p_min
    /\ ret.target <= unit.p_max
    /\ Abs(ret.target - ret.before) > unit.ramp_rate
    /\ Abs(unit.current_power - ret.before) = unit.ramp_rate
    /\ unit.current_power < ret.before

\* C2 as stated, for the outputs above 0 (outputs below 0 are C3's subject):
\* a plant's output is never strictly between 0 and p_min, and never above
\* p_max, after a step_power call.
C2_Original_NeverBelowMinimum ==
    unit.current_power > 0 =>
        (unit.p_min <= unit.current_power /\ unit.current_power <= unit.p_max)

\* The target step_power aims at once the p_min and p_max clamps are applied.
C2_ClampedTarget(p, t) ==
    IF 0 < t /\ t < p.p_min THEN 0 ELSE Min(t, p.p_max)

\* C2 amended: the output never exceeds p_max, and a step_power call whose
\* clamped target lies within ramp_rate of the previous output leaves the
\* output at that target, hence not strictly between 0 and p_min. (Only a
\* ramp-limited call can leave it there.)
C2_Amended_RestingOutput ==
    [][(/\ ret'.op = "step_power"
        /\ Abs(C2_ClampedTarget(unit, ret'.target) - unit.current_power)
              <= unit.ramp_rate)
       => (/\ unit'.current_power = C2_ClampedTarget(unit, ret'.target)
           /\ ~(0 < unit'.current_power /\ unit'.current_power < unit.p_min)
           /\ unit'.current_power <= unit.p_max)]_vars

\* C2 witness: a running plant asked for a sub-minimum target within its
\* ramp rate is switched off rather than left below p_min.
C2_Witness ==
    /\ ret.op = "step_power"
    /\ 0 < ret.target
    /\ ret.target < unit.p_min
    /\ ret.before >= unit.p_min
    /\ ret.before <= unit.ramp_rate
    /\ unit.current_power = 0
    /\ ~unit.is_on

\* C3 as stated: whatever targets are given, 0 <= output <= p_max, and the
\* returned cost and emissions are not negative.
C3_OutputWithinCapacity ==
    /\ 0 <= unit.current_power
    /\ unit.current_power <= unit.p_max
    /\ ret.op = "step_power" => (ret.hourly_cost >= 0 /\ ret.hourly_co2 >= 0)

\* The output c moved toward 0 by at most r.
C4_TowardZero(c, r) ==
    IF c >= 0 THEN c - Min(c, r) ELSE c + Min(-c, r)

\* C4: a target strictly between 0 and p_min is treated as 0: the output
\* moves toward 0 by min(|output|, ramp_rate), not toward the target or p_min.
C4_SubMinimumTargetIsZero ==
    [][(/\ ret'.op = "step_power"
        /\ 0 < ret'.target
        /\ ret'.target < unit.p_min)
       => unit'.current_power = C4_TowardZero(unit.current_power, unit.ramp_rate)]_vars

\* C4 witness: a plant above its ramp rate, given a sub-minimum target above
\* 0, came down by ramp_rate although that took it away from the target.
C4_Witness ==
    /\ ret.op = "step_power"
    /\ 0 < ret.target
    /\ ret.target < unit.p_min
    /\ ret.before > unit.ramp_rate
    /\ ret.before <= ret.target
    /\ unit.current_power = ret.before - unit.ramp_rate

---------------------------------------------------------------------------
(* Claims about Grid.step_balance (SpecGrid).                              *)

\* C8: step_balance returns delta = production - demand, is_blackout =
\* (delta < 0), unmet_demand = max(0, -delta), wasted_energy = max(0, delta);
\* so at most one of the two is nonzero, they sum to |delta|, and at
\* delta = 0 there is no blackout and both are 0.
C8_BalanceInvariants ==
    ret.op = "step_balance" =>
        LET b == ret.balance
        IN  /\ b.total_production = SumPower(grid.plants)
            /\ b.total_demand = SumLoad(grid.consumers)
            /\ b.delta = b.total_production - b.total_demand
            /\ b.is_blackout = (b.delta < 0)
            /\ b.unmet_demand = Max(0, -b.delta)
            /\ b.wasted_energy = Max(0, b.delta)
            /\ ~(b.unmet_demand # 0 /\ b.wasted_energy # 0)
            /\ b.unmet_demand + b.wasted_energy = Abs(b.delta)
            /\ b.delta = 0 =>
                  (~b.is_blackout /\ b.unmet_demand = 0 /\ b.wasted_energy = 0)

\* C8 witness: a balance taken with two plants producing exactly the demand.
C8_Witness ==
    /\ ret.op = "step_balance"
    /\ Len(grid.plants) = 2
    /\ grid.plants[1].current_power > 0
    /\ grid.plants[2].current_power > 0
    /\ ret.balance.total_demand > 0
    /\ ret.balance.delta = 0

\* The fixed-point units lose nothing: every weather fraction times its
\* capacity, and every action entry times p_max, is a whole number of units.
ExactArithmetic ==
    env.current_step # None =>
        /\ (env.current_weather.actual.demand * city_base_load)
               % FracDen(forecast_horizon) = 0
        /\ (env.current_weather.actual.solar * solar_capacity)
               % FracDen(forecast_horizon) = 0
        /\ (env.current_weather.actual.wind * wind_capacity)
               % FracDen(forecast_horizon) = 0
        /\ \A a \in Actions : \A i \in 1 .. num_controllable_plants :
               i <= Len(a) => (a[i] * env.grid.plants[i].p_max) % ActionScale = 0

---------------------------------------------------------------------------
(* Claims about SmartGridEnv.step (Spec).                                  *)

\* C5: counted from a fresh reset, the k-th step call returns
\* truncated = false for k = 1..23 and truncated = true for k = 24, and
\* every step call that returns has terminated = false.
C5_TruncatedOnTurn24 ==
    (ret.op = "step" /\ ret.status = "ok") =>
        /\ ret.terminated = FALSE
        /\ ret.nth \in 1 .. (max_steps - 1) => ret.truncated = FALSE
        /\ ret.nth = max_steps => ret.truncated = TRUE

\* The 24th step call of an episode has returned truncated = true.
C5_Witness ==
    /\ ret.op = "step"
    /\ ret.status = "ok"
    /\ ret.nth = max_steps
    /\ ret.truncated = TRUE
    /\ ret.terminated = FALSE

\* C6: once the turn counter has reached the horizon a further step call
\* changes nothing, so the turn counter never exceeds max_steps and the
\* progress entry of an observation stays within [0, 1].
C6_TurnWithinHorizon ==
    /\ env.current_step # None => env.current_step <= max_steps
    /\ (ret.op = "step" /\ ret.status = "ok") =>
          LET progress == ret.obs[Len(ret.obs)]
          IN  0 <= progress[1] /\ progress[1] <= progress[2]

\* Sum over the controllable plants of output times a per-MW rate.
ControllableTotal(plants, rate) ==
    LET term(i) == plants[i].current_power * rate[i]
    IN  term(1) + term(2) + term(3)

\* C9: the reward a step call returns is
\* -(0.1 total_cost + 0.1 total_emissions + 0.5 wasted + 100 unmet), the
\* totals being summed over the three controllable plants from their output
\* after the advance, and wasted / unmet being those of the same turn's
\* balance of generation against demand.
C9_RewardFormula ==
    (ret.op = "step" /\ ret.status = "ok") =>
        LET plants == env.grid.plants
            cost   == ControllableTotal(plants, [i \in 1 .. 3 |-> plants[i].cost_per_mw])
            co2    == ControllableTotal(plants, [i \in 1 .. 3 |-> plants[i].co2_per_mw])
            delta  == ret.info.total_generation - ret.info.current_demand
            wasted == Max(0, delta)
            unmet  == Max(0, -delta)
        IN  /\ ret.info.total_generation = SumPower(plants)
            /\ ret.info.current_demand = SumLoad(env.grid.consumers)
            /\ ret.reward =
                  -((Co2Scale * cost) + co2 + (5 * Co2Scale * wasted)
                      + (1000 * Co2Scale * unmet))

\* A step returned with plants running, emissions charged and demand unmet.
C9_Witness ==
    /\ ret.op = "step"
    /\ ret.status = "ok"
    /\ ret.info.is_blackout
    /\ env.grid.plants[1].current_power > 0
    /\ env.grid.plants[2].current_power > 0
    /\ env.grid.plants[3].current_power > 0
    /\ ret.reward < 0

\* C10: a step call whose action vector does not have exactly three
\* entries, shorter or longer, fails with an error instead of returning an
\* observation and a reward.
C10_WrongLengthFails ==
    (ret.op = "step" /\ Len(ret.action) # num_controllable_plants) =>
        ret.status # "ok"

---------------------------------------------------------------------------
(* Claims about two environments reset with one seed (SpecPair).           *)

\* C7: two independent environments reset with the same seed and then given
\* the same sequence of step actions produce the same observation, reward
\* and truncated flag at every turn.
C7_SameSeedSameRun ==
    paired =>
        /\ ret.op = ret2.op
        /\ ret.status = ret2.status
        /\ ret.status = "ok" => ret.obs = ret2.obs
        /\ (ret.op = "step" /\ ret.status = "ok") =>
              /\ ret.reward = ret2.reward
              /\ ret.truncated = ret2.truncated

\* Both environments have been stepped together three times or more since
\* their common reset.
C7_Witness ==
    /\ paired
    /\ ret.op = "step"
    /\ ret2.op = "step"
    /\ ret.status = "ok"
    /\ ret.nth >= 3
    /\ ret.obs = ret2.obs
    /\ ret.reward = ret2.reward
    /\ ret.reward # 0

---------------------------------------------------------------------------
(* Claims about the life cycle of the environment (Spec).                  *)

\* C11: a step call on an environment that was constructed but never reset
\* fails with an error, returns no observation or reward and leaves the
\* object not reset; a step call returns normally only after a reset (ret.nth
\* counts the step calls since the last reset and is 0 when there was none).
C11_StepBeforeResetFails ==
    /\ (env.current_step = None /\ ret.op = "step") =>
           (ret.status = "AttributeError" /\ ret.nth = 0)
    /\ (ret.op = "step" /\ ret.status = "ok") =>
           (env.current_step # None /\ ret.nth >= 1)

\* A step call was made on the never-reset environment and raised.
C11_Witness ==
    /\ env.current_step = None
    /\ ret.op = "step"
    /\ ret.status = "AttributeError"

\* C12: after reset, from whatever state it was called in, the turn counter
\* is 0, the three controllable plants have output 0 and are off, the
\* consumer load is the realized turn-0 demand fraction times the base load,
\* and the solar and wind outputs are the realized turn-0 fractions times
\* capacity, capped at capacity.
C12_ResetPostcondition ==
    (ret.op = "reset") =>
        LET plants == env.grid.plants
            actual == env.current_weather.actual
        IN  /\ env.current_step = 0
            /\ \A i \in 1 .. num_controllable_plants :
                  plants[i].current_power = 0 /\ plants[i].is_on = FALSE
            /\ env.grid.consumers[1].current_load =
                  Scaled(actual.demand, city_base_load)
            /\ plants[4].current_power =
                  Min(Scaled(actual.solar, solar_capacity), solar_capacity)
            /\ plants[5].current_power =
                  Min(Scaled(actual.wind, wind_capacity), wind_capacity)
            /\ env.current_weather =
                  step_weather_and_demand(
                      StochasticEngine(env.engine.rng.seed), 0, forecast_horizon)

\* A reset has returned with the wind farm producing and the city's load
\* moved off its base value by the turn-0 draw.
C12_Witness ==
    /\ ret.op = "reset"
    /\ env.current_step = 0
    /\ env.grid.plants[1].current_power = 0
    /\ env.grid.plants[5].current_power > 0
    /\ env.grid.consumers[1].current_load > 0
    /\ env.grid.consumers[1].current_load # city_base_load

---------------------------------------------------------------------------
(* Claims about a plant driven toward a held target (SpecHold).            *)

\* The nuclear plant was at output 0 when the target 300 MW was first given
\* and has been given it on every call since.
NuclearHeldAtFull ==
    /\ ret.op = "step_power"
    /\ unit.name = "Nuclear Plant"
    /\ unit.p_min = MW(150) /\ unit.p_max = MW(300) /\ unit.ramp_rate = MW(20)
    /\ ret.start = 0
    /\ ret.target = MW(300)

\* C13 as stated: for the plant with p_min = 150, p_max = 300, ramp_rate = 20
\* starting at output 0 with the target held at 300, the output is exactly
\* 20 after the first call and exactly 150 after 8 additional calls.
C13_Original_Exactly150 ==
    NuclearHeldAtFull =>
        /\ ret.held = 1 => unit.current_power = MW(20)
        /\ ret.held = 1 + 8 => unit.current_power = MW(150)

\* C13 amended: the output is exactly 20 after the first call and grows by
\* exactly 20 on each additional call up to 300: it is 160 after 7
\* additional calls, the first value at or above p_min, 180 after 8
\* additional calls, and it is never exactly 150.
C13_Amended_RampBy20 ==
    NuclearHeldAtFull =>
        /\ ret.held = 1 => unit.current_power = MW(20)
        /\ ret.held <= 15 => unit.current_power = ret.held * MW(20)
        /\ ret.held = 1 + 7 => unit.current_power = MW(160)
        /\ ret.held = 1 + 8 => unit.current_power = MW(180)
        /\ ret.held >= 15 => unit.current_power = MW(300)
        /\ unit.current_power # MW(150)

\* The ninth consecutive call toward 300 has left the nuclear plant at 180.
C13_Witness ==
    /\ NuclearHeldAtFull
    /\ ret.held = 1 + 8
    /\ unit.current_power = MW(180)

\* The value a plant rests at under a fixed target t >= 0.
RestingValue(p, t) == IF t < p.p_min THEN 0 ELSE Min(t, p.p_max)

\* C14: a plant starting at any output in [0, p_max] and given a fixed target
\* t >= 0 on every call reaches, after finitely many calls (as soon as the
\* calls times ramp_rate cover the distance), the resting value 0 if
\* t < p_min and min(t, p_max) otherwise, which lies in {0} or
\* [p_min, p_max], and stays there on every later call.
C14_ReachesRestingValue ==
    (/\ ret.op = "step_power"
     /\ 0 <= ret.start /\ ret.start <= unit.p_max
     /\ ret.target >= 0
     /\ ret.held * unit.ramp_rate >= Abs(ret.start - RestingValue(unit, ret.target)))
    => /\ unit.current_power = RestingValue(unit, ret.target)
       /\ \/ unit.current_power = 0
          \/ unit.p_min <= unit.current_power /\ unit.current_power <= unit.p_max

\* The nuclear plant, left at 300 by earlier calls, has been given the
\* sub-minimum target 90 for 15 calls and more, and rests at 0.
C14_Witness ==
    /\ ret.op = "step_power"
    /\ unit.name = "Nuclear Plant"
    /\ ret.start = MW(300)
    /\ ret.target = MW(90)
    /\ ret.held = MaxHoldCalls
    /\ unit.current_power = 0

---------------------------------------------------------------------------
(* Claims about an episode without controllable generation (SpecIdle).     *)

\* C15: from a fresh reset, if every step action is all zeros, the three
\* controllable plants stay at output 0 on every turn, is_blackout is true
\* exactly when the turn's demand exceeds solar output + wind output, and on
\* those turns unmet_demand = total_demand - total_production (which the
\* reward charges at 100 per MW).
C15_IdleEpisode ==
    (ret.op = "step" /\ ret.status = "ok") =>
        LET plants  == env.grid.plants
            demand  == env.grid.consumers[1].current_load
            renew   == plants[4].current_power + plants[5].current_power
            balance == step_balance(env.grid)
        IN  /\ \A i \in 1 .. num_controllable_plants :
                  plants[i].current_power = 0
            /\ ret.info.is_blackout = (demand > renew)
            /\ balance.is_blackout = ret.info.is_blackout
            /\ balance.total_production = renew
            /\ balance.is_blackout =>
                  /\ balance.unmet_demand = demand - renew
                  /\ balance.unmet_demand =
                        balance.total_demand - balance.total_production
                  /\ ret.reward = -(1000 * Co2Scale * balance.unmet_demand)

\* The last turn of an idle episode has ended in a blackout, with the
\* renewables producing.
C15_Witness ==
    /\ ret.op = "step"
    /\ ret.status = "ok"
    /\ ret.nth = max_steps
    /\ ret.action = <<0, 0, 0>>
    /\ ret.info.is_blackout
    /\ env.grid.plants[5].current_power > 0
    /\ env.grid.plants[1].current_power = 0
    /\ env.grid.plants[2].current_power = 0
    /\ env.grid.plants[3].current_power = 0

---------------------------------------------------------------------------
(* Claims about the observation and the order of events in step (Spec).    *)

\* reset or step has returned normally: ret holds an observation.
Returned == ret.op \in {"reset", "step"} /\ ret.status = "ok"

\* The layout of an observation of length n taken in the state the call
\* left: the 5 plant utilizations (gas, coal, nuclear, solar, wind), the
\* realized wind, solar and demand fractions, the forecasts for wind, solar
\* and demand, then turn / horizon.
ObsLayout(obs, n) ==
    LET plants == env.grid.plants
        w      == env.current_weather
        den    == FracDen(forecast_horizon)
        h      == forecast_horizon
    IN  /\ Len(obs) = n
        /\ Len(plants) = 5
        /\ \A i \in 1 .. 5 :
              obs[i] = <<plants[i].current_power, plants[i].p_max>>
        /\ obs[6] = <<w.actual.wind, den>>
        /\ obs[7] = <<w.actual.solar, den>>
        /\ obs[8] = <<w.actual.demand, den>>
        /\ \A k \in 1 .. h :
              /\ obs[8 + k] = <<w.forecast.wind[k], den>>
              /\ obs[8 + h + k] = <<w.forecast.solar[k], den>>
              /\ obs[8 + (2 * h) + k] = <<w.forecast.demand[k], den>>
        /\ obs[n] = <<env.current_step, max_steps>>

\* C16 as stated: every observation returned by reset and by step has fixed
\* length 42, in the layout above, and the declared observation space has
\* the same length.
C16_Original_Length42 ==
    Returned => (ObsLayout(ret.obs, 42) /\ env.observation_space = 42)

\* C16 amended: every observation returned by reset and by step has fixed
\* length 45 = 5 + 3 + 36 + 1, in the layout above, and the declared
\* observation space has the same length.
C16_Amended_Length45 ==
    Returned =>
        /\ ObsLayout(ret.obs, 45)
        /\ env.observation_space = 45
        /\ Len(env.current_weather.forecast.wind) = forecast_horizon
        /\ Len(env.current_weather.forecast.solar) = forecast_horizon
        /\ Len(env.current_weather.forecast.demand) = forecast_horizon

\* A step has returned an observation of 45 entries whose realized wind,
\* solar and demand fractions all differ.
C16_Witness ==
    /\ ret.op = "step"
    /\ ret.status = "ok"
    /\ Len(ret.obs) = 45
    /\ ret.obs[6] # ret.obs[7]
    /\ ret.obs[7] # ret.obs[8]
    /\ ret.obs[6] # ret.obs[8]
    /\ ret.obs[7][1] > 0

\* The step from the unprimed to the primed state is a step call that
\* returned normally on an environment that had been reset.
StepReturned ==
    /\ env.current_step # None
    /\ ret'.op = "step"
    /\ ret'.status = "ok"
    /\ env'.current_step = env.current_step + 1

\* C17: in every step call the order of events is turn increment, advance
\* of the three controllable plants, weather draw (for the incremented
\* turn), update of the consumer load and of the two renewables, then
\* balance: total production is the sum of all five outputs after their
\* update (info total_generation), total demand is the load after its
\* update (info current_demand), and info is_blackout is
\* (total_generation < current_demand).
C17_OrderOfEvents ==
    [][ StepReturned =>
          LET weather == step_weather_and_demand(env.engine,
                             env.current_step + 1, forecast_horizon)
              plants  == env'.grid.plants
              load    == env'.grid.consumers[1].current_load
              balance == step_balance(env'.grid)
              outputs == plants[1].current_power + plants[2].current_power
                           + plants[3].current_power + plants[4].current_power
                           + plants[5].current_power
          IN  /\ env'.current_weather = weather
              /\ load = Scaled(weather.actual.demand, city_base_load)
              /\ plants[4].current_power =
                    step_power(env.grid.plants[4],
                        Scaled(weather.actual.solar, solar_capacity)).self.current_power
              /\ plants[5].current_power =
                    step_power(env.grid.plants[5],
                        Scaled(weather.actual.wind, wind_capacity)).self.current_power
              /\ balance.total_production = outputs
              /\ balance.total_demand = load
              /\ ret'.info.total_generation = outputs
              /\ ret'.info.current_demand = load
              /\ ret'.info.is_blackout = balance.is_blackout
              /\ ret'.info.is_blackout =
                    (ret'.info.total_generation < ret'.info.current_demand)
      ]_vars

\* A step well into an episode has returned with supply covering demand,
\* the controllable plants and the wind farm all producing.
C17_Witness ==
    /\ ret.op = "step"
    /\ ret.status = "ok"
    /\ ret.nth >= 2
    /\ ~ret.info.is_blackout
    /\ ret.info.total_generation >= ret.info.current_demand
    /\ env.grid.plants[1].current_power > 0
    /\ env.grid.plants[5].current_power > 0
    /\ ret.info.current_demand > 0

\* The renewables and the consumer of grid g after the weather w is applied
\* to them, and to nothing else.
WeatherApplied(g, w) ==
    [g EXCEPT
        !.plants[4] = step_power(@, Scaled(w.actual.solar, solar_capacity)).self,
        !.plants[5] = step_power(@, Scaled(w.actual.wind, wind_capacity)).self,
        !.consumers[1] = update_load(@, Scaled(w.actual.demand, city_base_load))]

\* The controllable plants of grid g after each was advanced once toward
\* its own entry of the action times its own p_max, and nothing else.
ActionApplied(g, action) ==
    [g EXCEPT
        !.plants[1] = step_power(@, (action[1] * @.p_max) \div ActionScale).self,
        !.plants[2] = step_power(@, (action[2] * @.p_max) \div ActionScale).self,
        !.plants[3] = step_power(@, (action[3] * @.p_max) \div ActionScale).self]

\* C18: within one step call (that returns) each of the 5 plants is
\* advanced exactly once and by one authority: controllable plant i only
\* with target action[i] x p_max[i], the solar and wind plants only with
\* the realized fraction x capacity; the action leaves the renewables and
\* the consumer load unaffected and the weather leaves the controllable
\* plants unchanged. A reset advances only the renewables and the consumer.
C18_OneAuthorityPerPlant ==
    [][ /\ StepReturned =>
              /\ env'.grid =
                    WeatherApplied(ActionApplied(env.grid, ret'.action),
                                   env'.current_weather)
              /\ env'.grid =
                    ActionApplied(WeatherApplied(env.grid, env'.current_weather),
                                  ret'.action)
        /\ (env.current_step # None /\ ret'.op = "reset") =>
              env'.grid = WeatherApplied(ResetGrid, env'.current_weather)
      ]_vars

\* A daytime step has returned after the controller moved the coal and
\* nuclear plants and the weather moved the solar and wind plants.
C18_Witness ==
    /\ ret.op = "step"
    /\ ret.status = "ok"
    /\ ret.action = <<-5, 12, 10>>
    /\ env.grid.plants[1].current_power < 0
    /\ env.grid.plants[2].current_power > 0
    /\ env.grid.plants[3].current_power > 0
    /\ env.grid.plants[4].current_power > 0
    /\ env.grid.plants[5].current_power > 0

\* The weather bundle w is what the profiles of engine e return for hour
\* when the generator, in state e.rng, serves the demand profile first, the
\* solar profile second and the wind profile third.
DrawnInOrder(w, e, hour) ==
    LET h     == forecast_horizon
        rng_1 == e.rng
        rng_2 == rng_after_sample(rng_1, h)
        rng_3 == rng_after_sample(rng_2, h)
    IN  /\ w.actual.demand = ProfileValue(e.demand, rng_1, hour, h, 0)
        /\ w.actual.solar = ProfileValue(e.solar, rng_2, hour, h, 0)
        /\ w.actual.wind = ProfileValue(e.wind, rng_3, hour, h, 0)
        /\ \A k \in 1 .. h :
              /\ w.forecast.demand[k] = ProfileValue(e.demand, rng_1, hour, h, k)
              /\ w.forecast.solar[k] = ProfileValue(e.solar, rng_2, hour, h, k)
              /\ w.forecast.wind[k] = ProfileValue(e.wind, rng_3, hour, h, k)

\* Profile samples the generator has served: each takes horizon + 1 deviates.
SamplesTaken(e) == e.rng.draws \div (forecast_horizon + 1)

\* C19: every weather advance (one at reset for turn 0, then one per step
\* call that returns, for the already incremented turn) draws from the one
\* shared generator once per profile in the order demand, solar, wind, and
\* nothing else draws: after reset and k such steps exactly 3(k + 1) samples
\* have been taken.
C19_DrawOrder ==
    [][ /\ StepReturned =>
              /\ DrawnInOrder(env'.current_weather, env.engine,
                              env.current_step + 1)
              /\ SamplesTaken(env'.engine) = SamplesTaken(env.engine) + 3
              /\ env'.engine.rng.seed = env.engine.rng.seed
              /\ SamplesTaken(env'.engine) = 3 * ((ret'.nth - ret'.short) + 1)
        /\ (env.current_step # None /\ ret'.op = "reset") =>
              /\ DrawnInOrder(env'.current_weather,
                              StochasticEngine(env'.engine.rng.seed), 0)
              /\ SamplesTaken(env'.engine) = 3
        /\ (env.current_step # None /\ ret'.op = "step" /\ ret'.status # "ok") =>
              env'.engine = env.engine
      ]_vars

\* Reset and five returning steps (and one call that raised) have taken 18
\* samples.
C19_Witness ==
    /\ ret.op = "step"
    /\ ret.status = "ok"
    /\ ret.nth = 6
    /\ ret.short = 1
    /\ SamplesTaken(env.engine) = 18
    /\ env.engine.rng.draws = 18 * (forecast_horizon + 1)

\* C20: after reset and after every step that returns, each renewable
\* plant's output is min(realized fraction x capacity, capacity) for that
\* turn whatever its previous output (the ramp rate 999 never limits the
\* move, a fraction above 1 is capped at capacity), and the consumer load is
\* realized demand fraction x base load, with no cap.
C20_RenewablesTrackWeather ==
    Returned =>
        LET actual == env.current_weather.actual
            solar  == env.grid.plants[4]
            wind   == env.grid.plants[5]
        IN  /\ solar.current_power =
                  Min(Scaled(actual.solar, solar_capacity), solar_capacity)
            /\ wind.current_power =
                  Min(Scaled(actual.wind, wind_capacity), wind_capacity)
            /\ env.grid.consumers[1].current_load =
                  Scaled(actual.demand, city_base_load)
            /\ solar.ramp_rate > solar_capacity
            /\ wind.ramp_rate > wind_capacity

\* A step has returned on a turn whose realized wind fraction is above 1:
\* the wind farm is at capacity, and the solar farm follows its own
\* fraction below capacity.
C20_Witness ==
    /\ ret.op = "step"
    /\ ret.status = "ok"
    /\ env.current_weather.actual.wind > FracDen(forecast_horizon)
    /\ env.grid.plants[5].current_power = wind_capacity
    /\ env.grid.plants[4].current_power > 0
    /\ env.grid.plants[4].current_power < solar_capacity
    /\ env.grid.consumers[1].current_load # city_base_load

---------------------------------------------------------------------------
(* Claims about one profile sample (SpecProfile).                          *)

\* values[k] of a sample as it follows from the base-profile entry at index
\* (current_hour + k) mod 24, the k-th deviate of the generator the call
\* drew from and the volatility of the profile sampled.
SampleValueAt(k) ==
    LET self  == eng[ret.profile]
        trend == self.base_profile[((ret.current_hour + k) % 24) + 1]
        std   == self.noise_volatility * trend * GrowthNum(k, ret.horizon)
    IN  Max(trend * ProfileScale * GrowthDen(ret.horizon)
                + NormalDraw(ret.rng, k) * std, 0)

\* C21: for any current_hour >= 0 and horizon >= 0, a profile sample uses the
\* base-profile entry at index (current_hour + k) mod 24 for every offset
\* k = 0 .. horizon, which is always inside the 24-entry profile; it returns
\* the offset-0 value as actual and exactly horizon forecast values, those of
\* offsets 1 .. horizon; a sample at hour 24 uses entry 0 for its actual value.
C21_ProfileIndexing ==
    ret.op = "sample" =>
        /\ DOMAIN ret.hours = 0 .. ret.horizon
        /\ \A k \in 0 .. ret.horizon :
              /\ ret.hours[k] \in 0 .. 23
              /\ ret.hours[k] = (ret.current_hour + k) % 24
              /\ ret.hours[k] + 1 \in DOMAIN eng[ret.profile].base_profile
        /\ ret.actual = SampleValueAt(0)
        /\ DOMAIN ret.forecast = 1 .. ret.horizon
        /\ \A k \in 1 .. ret.horizon : ret.forecast[k] = SampleValueAt(k)
        /\ (ret.current_hour = 24 => ret.hours[0] = 0)

\* C21 witness: a demand sample taken at hour 24 with the environment's
\* horizon: the actual value comes from entry 0 of the profile, is not the
\* bare trend, and twelve forecast values follow it.
C21_Witness ==
    /\ ret.op = "sample"
    /\ ret.profile = "demand"
    /\ ret.current_hour = 24
    /\ ret.horizon = forecast_horizon
    /\ ret.hours[0] = 0
    /\ ret.hours[forecast_horizon] = 12
    /\ ret.actual > 0
    /\ ret.actual # demand_profile[1] * ProfileScale * GrowthDen(ret.horizon)
    /\ Cardinality(DOMAIN ret.forecast) = forecast_horizon

\* The base profile of a StochasticProfile has one value at every hour.
ConstantTrend(self) ==
    \A a, b \in DOMAIN self.base_profile :
        self.base_profile[a] = self.base_profile[b]

\* C22: for a profile with a constant trend and any horizon >= 1, the noise
\* standard deviation volatility x trend x multiplier never decreases from one
\* offset to the next; the multiplier is exactly 0.5 at offset 0, exactly 3.0
\* at offset horizon and 0.5 + 2.5 k / horizon at offset k; the values
\* returned are the trend plus the deviate scaled by that standard deviation,
\* clipped at 0.
C22_NoiseGrowsWithOffset ==
    (ret.op = "sample" /\ ret.horizon >= 1 /\ ConstantTrend(eng[ret.profile])) =>
        LET self == eng[ret.profile]
            h    == ret.horizon
            \* volatility x trend, over FracDen(h)
            vt   == self.noise_volatility * self.base_profile[1] * GrowthDen(h)
            Value(k) == Max(self.base_profile[1] * ProfileScale * GrowthDen(h)
                                + NormalDraw(ret.rng, k) * ret.noise_std[k], 0)
        IN  /\ \A k \in 0 .. h - 1 : ret.noise_std[k + 1] >= ret.noise_std[k]
            /\ 2 * ret.noise_std[0] = vt
            /\ ret.noise_std[h] = 3 * vt
            /\ \A k \in 0 .. h : 2 * h * ret.noise_std[k] = (h + 5 * k) * vt
            /\ ret.actual = Value(0)
            /\ \A k \in 1 .. h : ret.forecast[k] = Value(k)

\* C22 witness: a wind sample with the environment's horizon whose standard
\* deviation grows strictly with the offset, sixfold from offset 0 to offset
\* 12, and whose last forecast value is not the bare trend.
C22_Witness ==
    /\ ret.op = "sample"
    /\ ret.profile = "wind"
    /\ ret.horizon = forecast_horizon
    /\ ret.noise_std[0] > 0
    /\ \A k \in 0 .. ret.horizon - 1 : ret.noise_std[k + 1] > ret.noise_std[k]
    /\ ret.noise_std[ret.horizon] = 6 * ret.noise_std[0]
    /\ ret.forecast[ret.horizon]
           # wind_profile[1] * ProfileScale * GrowthDen(ret.horizon)

---------------------------------------------------------------------------
(* Claims about the solar farm at night and the make-up of the grid (Spec). *)

\* The generator as it was when the solar profile of the current turn was
\* sampled: the solar and the wind samples have been drawn since.
RngAtSolarSample ==
    [env.engine.rng EXCEPT !.draws = @ - 2 * (forecast_horizon + 1)]

\* C23: after reset and after every step that returns, on a turn whose hour
\* (turn mod 24) has base solar profile value 0, the noise standard deviation
\* of the realized solar value is 0, the realized solar fraction is exactly 0
\* and the solar plant's output is exactly 0.
C23_NoSolarAtNight ==
    (Returned /\ solar_profile[(env.current_step % 24) + 1] = 0) =>
        /\ (env.current_step % 24) \in (0 .. 5) \cup (18 .. 23)
        /\ NoiseStd(env.engine.solar, env.current_step, forecast_horizon, 0) = 0
        /\ env.current_weather.actual.solar = 0
        /\ env.grid.plants[4].plant_type = "solar"
        /\ env.grid.plants[4].current_power = 0

\* C23 witness: the step of turn 18, the first hour after sunset, has
\* returned; the deviate drawn for the realized solar value was not 0, and
\* the solar fraction and the solar plant's output are 0.
C23_Witness ==
    /\ ret.op = "step"
    /\ ret.status = "ok"
    /\ env.current_step = 18
    /\ NormalDraw(RngAtSolarSample, 0) # 0
    /\ env.current_weather.actual.solar = 0
    /\ env.grid.plants[4].current_power = 0

\* The parameters of a plant that no call is meant to change.
StaticParameters(p) ==
    [name        |-> p.name,
     plant_type  |-> p.plant_type,
     p_max       |-> p.p_max,
     p_min       |-> p.p_min,
     ramp_rate   |-> p.ramp_rate,
     cost_per_mw |-> p.cost_per_mw,
     co2_per_mw  |-> p.co2_per_mw]

\* C24: after any sequence of reset and step calls the grid holds exactly 5
\* plants, in the order gas, coal, nuclear, solar, wind, and exactly 1
\* consumer, and every plant has the p_max, p_min, ramp_rate, cost and
\* emission parameters reset gave it.
C24_GridMakeUp ==
    env.current_step # None =>
        /\ Len(env.grid.plants) = 5
        /\ [i \in 1 .. 5 |-> env.grid.plants[i].plant_type]
               = <<"gas", "coal", "nuclear", "solar", "wind">>
        /\ Len(env.grid.consumers) = 1
        /\ env.grid.consumers[1].base_load = city_base_load
        /\ \A i \in 1 .. 5 :
              StaticParameters(env.grid.plants[i])
                  = StaticParameters(ResetGrid.plants[i])

\* C24 witness: a step has returned on a later turn of an episode, every
\* plant is producing and the load is not the base load; the grid still has
\* its five plants and its consumer.
C24_Witness ==
    /\ ret.op = "step"
    /\ ret.status = "ok"
    /\ env.current_step >= 2
    /\ Len(env.grid.plants) = 5
    /\ Len(env.grid.consumers) = 1
    /\ \A i \in 1 .. 5 : env.grid.plants[i].current_power > 0
    /\ env.grid.plants[2].current_power # ResetGrid.plants[2].current_power
    /\ env.grid.consumers[1].current_load # city_base_load

\* C25 as stated: a step call that fails because the action vector has fewer
\* than 3 entries leaves the environment as it was before the call: the turn
\* counter is not incremented, no plant output has changed and no weather
\* draw has been consumed.
C25_FailedStepChangesNothing ==
    [][(env.current_step # None /\ ret'.op = "step"
            /\ ret'.status = "IndexError") =>
           /\ env'.current_step = env.current_step
           /\ env'.grid = env.grid
           /\ env'.engine = env.engine
           /\ env'.current_weather = env.current_weather]_vars

===========================================================================
